---- MODULE Spec2Model ----
(***************************************************************************)
(* A model of systemd-panel's two stateful cores:                          *)
(*   - app/auth.py    Auth: challenge nonces and sliding-expiry sessions,   *)
(*                    and the routes of app/server.py that use them;        *)
(*   - app/systemd.py StatusBus: the background snapshot broadcaster, its   *)
(*                    single-slot subscriber queues and status_stream;      *)
(*   - app/sse.py     the event-stream frames, and the two stream routes    *)
(*                    of app/server.py that send them.                      *)
(* Spec is the authentication surface, BusSpec the status bus, SseSpec a   *)
(* stream response.                                                        *)
(***************************************************************************)
EXTENDS Integers, Sequences, FiniteSets, TLC

\* ------------------------------------------------------------------ bounds
\* Clock readings are multiples of TimeStep up to MaxTime.
TimeStep == 40
MaxTime == 200
\* Session TTL handed to Auth(...) (CONFIG.session_ttl, an environment setting).
SessionTtl == 80
\* How many nonces / session ids secrets.token_urlsafe hands out in a run.
MaxNonces == 1
MaxSids == 2
\* How many status streams are opened, and how many snapshots the producer
\* loop computes, in a run.
MaxSubs == 2
MaxCycles == 2
\* How many snapshots the producer loop computes in a run that keeps the
\* per-stream histories (the drop-oldest scenario has 5 cycles).
LogCycles == 5
\* How many trigger() calls are counted between two wakes of the loop.
MaxTriggers == 2
\* Length of a payload's text, and number of data frames a stream response
\* carries, in a run.
MaxLen == 2
MaxFrames == 2

\* --------------------------------------------------------- program values
\* Challenge lifetime in seconds: time.time() + 120.0
NonceTtl == 120
\* Python's None (the default of dict.pop / dict.get) and the empty string,
\* kept apart from every token and every timestamp.
None == -1
EmptyStr == -2
\* asyncio.Queue(maxsize=1)
QueueMaxsize == 1

VARIABLES
    now,        \* the reading time.time() returns
    nonces,     \* Auth._nonces: nonce -> expiry_ts
    sessions,   \* Auth._sessions: sid -> expiry_ts
    nNonce,     \* number of nonces secrets.token_urlsafe has produced
    nSid,       \* number of session ids secrets.token_urlsafe has produced
    ev,         \* the call made by the last step, with its arguments and result
    grant,      \* history: nonce -> sid returned by the verify_login that redeemed it
    presented,  \* history: nonce -> branch taken by the verify_login that popped it
    revoked,    \* history: sids for which revoke_sid has returned
    evicted,    \* history: sids that validate_sid refused because the deadline had passed
    nbus,       \* number of StatusBus objects _get_bus has made for the service_dir
    startq,     \* number of bus.start() tasks _get_bus has scheduled that have not run yet
    task,       \* StatusBus._task: "None", or "set" when it holds a Task
    ppc,        \* where _run stands: "none", "wait", "compute", "ready", "dead", "cancelled"
    stopped,    \* how the last stop() went: "none", "returned", "CancelledError", "waiting"
    loops,      \* number of _run tasks start() has created that have not ended
    poke,       \* StatusBus._poke: whether the Event is set
    subs,       \* StatusBus._subs: the queues registered, named by their stream
    mailbox,    \* stream -> the items in its asyncio.Queue, oldest first
    spc,        \* stream -> where status_stream stands: "off", "init", "loop",
                \* "abandoned" (suspended at a yield, nobody iterating), "closed"
    track,      \* history, kept by BusSpec: the trigger() call followed: 0 none, 2 made,
                \* 1 the computation started after it is running
    pending,    \* history, kept by DebounceSpec: number of trigger() calls made since
                \* the loop's wait last returned (or since the bus was made)
    served,     \* history, kept by DebounceSpec: number of trigger() calls the last
                \* wake took up; 0 when the wait timed out
    redone,     \* history: whether unsubscribe was called again for a queue already removed
    nfull,      \* history: number of mailboxes the last broadcast found full
    nobs,       \* number of times the producer loop's services_snapshot has observed the units
    snap,       \* the snapshot the producer loop has computed and not yet broadcast
    sent,       \* history: the snapshots broadcast, in order
    got,        \* history, kept by LogSpec: stream -> the snapshots it has yielded, in order
    since,      \* history, kept by LogSpec: stream -> number of broadcasts made before it subscribed
    dropped,    \* history, kept by LogSpec: stream -> number of its snapshots a broadcast evicted
    route,      \* the stream route serving the response: "status" or "logs"
    event,      \* the `event` argument given to send_sse
    rpc,        \* where the route stands: "call", "loop", "finally", "returned",
                \* "raised", or "aborted" (left from inside start_sse)
    exc,        \* the exception that took the route out of its loop, "none" without one
    wire,       \* the messages handed to the ASGI send callable, in order
    frame       \* the last send_sse call: its payload and the body it built

authVars ==
    <<now, nonces, sessions, nNonce, nSid, ev, grant, presented, revoked, evicted>>
busVars ==
    <<nbus, startq, task, ppc, stopped, loops, poke, subs, mailbox, spc, nobs, snap,
      nfull, sent, track, pending, served, redone, got, since, dropped>>
\* The registry, and the bus's task.
regVars == <<nbus, startq>>
taskVars == <<task, stopped, loops>>
\* The trigger counts, which only DebounceSpec keeps.
debVars == <<pending, served>>
\* The per-stream histories, which only LogSpec keeps.
logVars == <<got, since, dropped>>

\* A stream response.
sseVars == <<route, event, rpc, exc, wire, frame>>

\* ------------------------------------------------------------ input spaces
\* Tokens are numbered in the order secrets.token_urlsafe returns them; 0 is
\* a string the server never issued (a guess, a tampered value).
\* A client can send the tokens issued so far, which are the only ones it can
\* know (each is 24 bytes from secrets), and strings of its own making.
NonceValues == 0..nNonce
SidValues == 0..nSid
\* What a Cookie header can give for "sid": nothing, "sid=", or a value.
CookieValues == {None, EmptyStr} \cup SidValues
Times == {t \in 0..MaxTime : t % TimeStep = 0}

\* A client-supplied proof string.  "lower"/"upper" is the hex digest of
\* HMAC-SHA256(key, nonce `of`) in lower or upper case, "junk" is an ASCII
\* string that is no digest under the key (the default "" of
\* data.get("hmac", "") is one) and "nonascii" a str with a non-ASCII
\* character.
Proofs ==
    [form : {"lower", "upper"}, of : 1..nNonce]
        \cup [form : {"junk", "nonascii"}, of : {0}]

\* ------------------------------------------------------------- dict helpers
DictGet(d, k) == IF k \in DOMAIN d THEN d[k] ELSE None
DictDel(d, k) == [x \in (DOMAIN d) \ {k} |-> d[x]]
DictPut(d, k, v) == [x \in (DOMAIN d) \cup {k} |-> IF x = k THEN v ELSE d[x]]
\* `not exp` for a timestamp-or-None
NotNum(x) == x = None \/ x = 0
\* `not sid` for a str-or-None
NotStr(s) == s = None \/ s = EmptyStr

\* ---------------------------------------------------------- HMAC and proof
\* hmac.new(key, nonce.encode(), sha256).hexdigest(): lowercase hex, one
\* digest per nonce.
HexDigest(n) == [form |-> "lower", of |-> n]
\* str.lower() of the client's proof
Lower(p) == IF p.form = "upper" THEN [p EXCEPT !.form = "lower"] ELSE p
\* (mutant: the result of the comparison is not looked at, any proof passes)
CompareDigestAnyProof(a, b) == "True"
\* hmac.compare_digest(expected, given) on two str: TypeError when one holds
\* a non-ASCII character, else equality.
CompareDigest(a, b) ==
    IF a.form = "nonascii" \/ b.form = "nonascii" THEN "TypeError"
    ELSE IF a = b THEN "True" ELSE "False"

\* The proof a client holding the token computes for nonce n.
IsCorrectProof(n, p) == p.form \in {"lower", "upper"} /\ p.of = n

\* ------------------------------------------------------------ Auth methods
\* make_nonce: the expiry stored for a nonce created at clock reading t
NonceExpiry(t) == t + NonceTtl
\* (mutant: the expiry test left out)
NonceNeverExpired(exp, t) == FALSE
\* verify_login, `time.time() > exp` for the nonce just popped
NonceExpired(exp, t) == t > exp
\* (mutant: the nonce read with .get, and left in the store)
NoncesAfterGet(n) == nonces
\* (mutant: the lookup restarts the nonce's lifetime instead of ending it)
NoncesAfterRefresh(n) ==
    IF n \in DOMAIN nonces THEN DictPut(nonces, n, NonceExpiry(now)) ELSE nonces
\* verify_login, `self._nonces.pop(nonce, None)`: the store after the lookup
NoncesAfterPop(n) == DictDel(nonces, n)
\* (mutant: `>=`, the session is refused at the deadline itself)
SessionExpiredAtDeadline(exp, t) == t >= exp
\* validate_sid, `time.time() > exp`
SessionExpired(exp, t) == t > exp
\* verify_login / validate_sid, `time.time() + self._ttl`
SessionDeadline(t) == t + SessionTtl
\* validate_sid on an expired session: `self._sessions.pop(sid, None)`
SessionsAfterExpiry(sid) == DictDel(sessions, sid)
\* (mutant: revoke_sid forgets to remove the session)
SessionsAfterNoRevoke(sid) == sessions
\* revoke_sid: `self._sessions.pop(sid, None)`
SessionsAfterRevoke(sid) == DictDel(sessions, sid)

\* The path verify_login(n, p) takes in the current state: the nonce is not
\* in the store ("absent"), is past its expiry ("expired"), compare_digest
\* raises, the digests differ ("mismatch"), or they match.
VerifyBranch(n, p) ==
    LET exp == DictGet(nonces, n) IN
    IF NotNum(exp) THEN "absent"
    ELSE IF NonceExpired(exp, now) THEN "expired"
    ELSE LET c == CompareDigest(HexDigest(n), Lower(p)) IN
         IF c = "TypeError" THEN "TypeError"
         ELSE IF c = "False" THEN "mismatch"
         ELSE "match"

\* What verify_login gives its caller on each path: "sid" (a new session id
\* is returned), "None", or the exception that leaves it.
VerifyReturn(branch) ==
    CASE branch \in {"absent", "expired", "mismatch"} -> "None"
      [] branch = "TypeError" -> "TypeError"
      [] branch = "match" -> "sid"

\* POST /api/auth/login: the status answered for what verify_login gave.  An
\* exception leaves app() before any response was started (status 500 is
\* what the ASGI server then answers).
LoginStatus(out) ==
    IF out = "sid" THEN 200 ELSE IF out = "None" THEN 401 ELSE 500

\* What validate_sid(sid) returns in the current state.
ValidateOutcome(sid) ==
    LET exp == DictGet(sessions, sid) IN
    IF NotNum(exp) THEN FALSE
    ELSE IF SessionExpired(exp, now) THEN FALSE
    ELSE TRUE

\* The session store after validate_sid(sid).
SessionsAfterValidate(sid) ==
    LET exp == DictGet(sessions, sid) IN
    IF NotNum(exp) THEN sessions
    ELSE IF SessionExpired(exp, now) THEN SessionsAfterExpiry(sid)
    ELSE DictPut(sessions, sid, SessionDeadline(now))

\* ------------------------------------------------------------------ routes
\* What a protected endpoint does once the session gate has let the request
\* through: its status and the work it starts.  `param` is the state of the
\* unit named by the request, for the endpoints that name one.
EndpointResult(endpoint, param) ==
    CASE endpoint = "services" -> [status |-> 200, effect |-> "snapshot"]
      [] endpoint = "status_stream" -> [status |-> 200, effect |-> "subscribe"]
      [] endpoint = "action" ->
            IF param = "bad unit" THEN [status |-> 400, effect |-> "none"]
            ELSE IF param = "unit not found" THEN [status |-> 404, effect |-> "none"]
            ELSE [status |-> 200, effect |-> "action"]
      [] endpoint = "logs" ->
            IF param = "bad unit" THEN [status |-> 400, effect |-> "none"]
            ELSE IF param = "unit not found" THEN [status |-> 404, effect |-> "none"]
            ELSE [status |-> 200, effect |-> "logtail"]

Endpoints == {"services", "action", "status_stream", "logs"}
Params == {"ok", "bad unit", "unit not found"}
\* The requests told apart: the unit's state matters to two endpoints only.
Targets ==
    {<<e, a>> \in Endpoints \X Params : e \in {"action", "logs"} \/ a = "ok"}

\* (mutant: logout answers 401 when the cookie names no stored session)
LogoutResponseNeedsSession(cookie) ==
    IF cookie \in DOMAIN sessions
    THEN [status |-> 200, ok |-> TRUE]
    ELSE [status |-> 401, ok |-> FALSE]
\* POST /api/auth/logout: `send_json(send, 200, {"ok": True}, ...)`, on the
\* one path the route has, whatever the cookie gave.
LogoutResponse(cookie) == [status |-> 200, ok |-> TRUE]

\* `if not sid or not AUTH.validate_sid(sid)`: validate_sid is called only
\* for a non-empty cookie value.
GateCalls(cookie) == ~NotStr(cookie)
\* (mutant: `if sid and not validate_sid(sid)`, a request without a cookie
\* gets through)
GatePassesNoCookie(cookie) == GateCalls(cookie) => ValidateOutcome(cookie)
GatePasses(cookie) == GateCalls(cookie) /\ ValidateOutcome(cookie)

\* ----------------------------------------------------------------- actions
AuthInit ==
    /\ now = 0
    /\ nonces = <<>>
    /\ sessions = <<>>
    /\ nNonce = 0
    /\ nSid = 0
    /\ ev = [op |-> "init"]
    /\ grant = <<>>
    /\ presented = <<>>
    /\ revoked = {}
    /\ evicted = {}

\* GET /api/auth/challenge -> AUTH.make_nonce()
Challenge ==
    /\ nNonce < MaxNonces
    /\ LET n == nNonce + 1 IN
        /\ nNonce' = n
        /\ nonces' = DictPut(nonces, n, NonceExpiry(now))
        /\ ev' = [op |-> "challenge", nonce |-> n, status |-> 200]
    /\ UNCHANGED <<now, sessions, nSid, grant, presented, revoked, evicted>>
    /\ UNCHANGED <<busVars, sseVars>>

\* POST /api/auth/login -> AUTH.verify_login(nonce, hmac).  ev keeps what the
\* pop returned (`exp`) and the path taken.
Login(n, p) ==
    LET branch == VerifyBranch(n, p)
        out == VerifyReturn(branch)
        sid == nSid + 1
    IN
    /\ out = "sid" => nSid < MaxSids
    /\ nonces' = NoncesAfterPop(n)
    /\ presented' = IF n \in DOMAIN nonces /\ n \notin DOMAIN presented
                    THEN DictPut(presented, n, branch) ELSE presented
    /\ IF out = "sid"
       THEN /\ nSid' = sid
            /\ sessions' = DictPut(sessions, sid, SessionDeadline(now))
            /\ grant' = IF n \in DOMAIN grant THEN grant ELSE DictPut(grant, n, sid)
       ELSE UNCHANGED <<nSid, sessions, grant>>
    /\ ev' = [op |-> "login", nonce |-> n, proof |-> p, exp |-> DictGet(nonces, n),
              branch |-> branch, out |-> out, sid |-> IF out = "sid" THEN sid ELSE 0,
              status |-> LoginStatus(out)]
    /\ UNCHANGED <<now, nNonce, revoked, evicted>>
    /\ UNCHANGED <<busVars, sseVars>>

\* POST /api/auth/logout -> AUTH.revoke_sid(sid) when the cookie names one
\* (`if sid:`).  ev keeps the deadline the store held for the cookie.
Logout(cookie) ==
    /\ IF NotStr(cookie)
       THEN UNCHANGED <<sessions, revoked>>
       ELSE /\ sessions' = SessionsAfterRevoke(cookie)
            /\ revoked' = revoked \cup {cookie}
    /\ ev' = [op |-> "logout", cookie |-> cookie, exp |-> DictGet(sessions, cookie),
              status |-> LogoutResponse(cookie).status, ok |-> LogoutResponse(cookie).ok]
    /\ UNCHANGED <<now, nonces, nNonce, nSid, grant, presented, evicted>>
    /\ UNCHANGED <<busVars, sseVars>>

\* Any other /api/ request: the session gate, then the endpoint.  ev keeps
\* what validate_sid read (`exp`) and returned (`valid`) when it was called.
Request(endpoint, cookie, param) ==
    LET called == GateCalls(cookie)
        exp == IF called THEN DictGet(sessions, cookie) ELSE None
        r == EndpointResult(endpoint, param)
        pass == GatePasses(cookie)
    IN
    /\ sessions' = IF called THEN SessionsAfterValidate(cookie) ELSE sessions
    /\ evicted' = IF called /\ ~NotNum(exp) /\ ~ValidateOutcome(cookie)
                  THEN evicted \cup {cookie} ELSE evicted
    /\ ev' = [op |-> "request", endpoint |-> endpoint, cookie |-> cookie,
              called |-> called, exp |-> exp,
              valid |-> called /\ ValidateOutcome(cookie),
              status |-> IF pass THEN r.status ELSE 401,
              effect |-> IF pass THEN r.effect ELSE "none"]
    /\ UNCHANGED <<now, nonces, nNonce, nSid, grant, presented, revoked>>
    /\ UNCHANGED <<busVars, sseVars>>

\* time.time() between two calls: the clock moves on ...
Tick ==
    /\ now + TimeStep <= MaxTime
    /\ now' = now + TimeStep
    /\ ev' = [op |-> "tick"]
    /\ UNCHANGED <<nonces, sessions, nNonce, nSid, grant, presented, revoked, evicted>>
    /\ UNCHANGED <<busVars, sseVars>>

\* ... or, being the wall clock, is set back.
ClockSetBack ==
    /\ \E t \in Times : t < now /\ now' = t
    /\ ev' = [op |-> "setback"]
    /\ UNCHANGED <<nonces, sessions, nNonce, nSid, grant, presented, revoked, evicted>>
    /\ UNCHANGED <<busVars, sseVars>>

\* ============================================================== StatusBus
Streams == 1..MaxSubs

\* (mutant: a queue made without a bound, whose full() is never true)
FullNever(box) == FALSE
\* asyncio.Queue.full() for a queue made with maxsize=1
Full(box) == Len(box) >= QueueMaxsize

\* (mutant: a full mailbox keeps what it holds and the new snapshot is lost)
DepositKeepOldest(box, snapshot) ==
    IF Full(box) THEN [box |-> box, raised |-> FALSE, evicted |-> 0]
    ELSE [box |-> Append(box, snapshot), raised |-> FALSE, evicted |-> 0]
\* _broadcast, one queue: `if q.full(): q.get_nowait()`, then
\* `q.put_nowait(snapshot)`, which raises QueueFull on a queue still full.
Deposit(box, snapshot) ==
    LET room == IF Full(box) THEN Tail(box) ELSE box
        out == IF Full(box) THEN 1 ELSE 0
    IN IF Full(room)
       THEN [box |-> room, raised |-> TRUE, evicted |-> out]
       ELSE [box |-> Append(room, snapshot), raised |-> FALSE, evicted |-> out]

\* (mutant: `await q.put(snapshot)`, which waits while the queue is full)
DepositWaitsForRoom(box) == Full(box)
\* Whether _broadcast suspends on a queue: get_nowait and put_nowait never do.
DepositWaits(box) == FALSE

\* A snapshot is told from the others by its generation, the moment its
\* computation observed the units: 2k for the producer loop's k-th
\* observation, 2k+1 for an initial snapshot that status_stream observed
\* after the loop's k-th observation and before its next.
LoopStamp(k) == 2 * k
StreamStamp(k) == 2 * k + 1

\* `while True`: after _broadcast the loop is back in wait_for.
NextIteration == "wait"

\* (mutant: _get_bus never finds the bus in the registry)
RegistryMiss == FALSE
\* `bus = _BUSES.get(service_dir)` finds a bus: entries are never removed.
RegistryHit == nbus > 0

\* (mutant: a set that forgets nothing)
DiscardNothing(set, q) == set
\* set.discard: no error when q is not in the set.
Discard(set, q) == set \ {q}

\* (mutant: status_stream without its `finally`)
SubsAfterNoFinally(s) == subs
\* status_stream's `finally: bus.unsubscribe(q)`
SubsAfterExit(s) == Discard(subs, s)

\* Whether a cancellation that reaches _run in wait_for can be swallowed:
\* when the Event is set, the inner wait has finished by the time the
\* CancelledError is delivered, and the wait_for of Python 3.10 and 3.11
\* returns its result in place of raising; the wait_for of 3.12 raises.
CancelCanBeSwallowed == ppc = "wait" /\ poke
Running == {"wait", "compute", "ready"}

BusInit ==
    /\ nbus = 0
    /\ startq = 0
    /\ task = "None"
    /\ ppc = "none"
    /\ stopped = "none"
    /\ loops = 0
    /\ poke = FALSE
    /\ subs = {}
    /\ mailbox = [s \in Streams |-> <<>>]
    /\ spc = [s \in Streams |-> "off"]
    /\ nfull = 0
    /\ nobs = 0
    /\ snap = 0
    /\ sent = <<>>
    /\ track = 0
    /\ pending = 0
    /\ served = 0
    /\ redone = FALSE
    /\ got = [s \in Streams |-> <<>>]
    /\ since = [s \in Streams |-> 0]
    /\ dropped = [s \in Streams |-> 0]

\* _get_bus: the first call makes the bus, registers it and schedules
\* bus.start(); there is no await in it.
GetBus ==
    IF RegistryHit
    THEN UNCHANGED regVars
    ELSE nbus' = nbus + 1 /\ startq' = startq + 1

\* (mutant: start() without its test, a task is created at every call)
TaskAlwaysNew == TRUE
\* StatusBus.start, `if self._task is None`
TaskIsNone == task = "None"

\* StatusBus.start: `if self._task is None: self._task = create_task(self._run())`
\* The new task begins at the loop's first wait_for.
StartLoop ==
    IF TaskIsNone
    THEN task' = "set" /\ ppc' = "wait" /\ loops' = loops + 1
    ELSE UNCHANGED <<task, ppc, loops>>

\* The bus.start() task that _get_bus scheduled runs.
BusStart ==
    /\ startq > 0
    /\ startq' = startq - 1
    /\ StartLoop
    /\ UNCHANGED <<nbus, stopped, poke, subs, mailbox, spc, nobs, snap, nfull, sent,
                   track, debVars, redone, logVars>>
    /\ UNCHANGED <<authVars, sseVars>>

\* bus.start() called on the registered bus (after a stop()).
Start ==
    /\ nbus > 0
    /\ StartLoop
    /\ UNCHANGED <<regVars, stopped, poke, subs, mailbox, spc, nobs, snap, nfull, sent,
                   track, debVars, redone, logVars>>
    /\ UNCHANGED <<authVars, sseVars>>

\* bus.stop() called on the registered bus.  `if self._task:` cancel it and
\* await it under `except Exception`, then `self._task = None`.
\*  - no task: nothing is done;
\*  - the loop runs: the CancelledError is thrown into _run at its await; the
\*    loop ends and `await self._task` raises CancelledError, which is not an
\*    Exception: it leaves stop() and the assignment is not reached.  Or the
\*    cancellation is swallowed and stop() stays in `await self._task`;
\*  - the loop has ended with the provider's exception: the await raises it,
\*    it is caught, and _task is set to None;
\*  - the loop has been cancelled before: the await raises CancelledError.
Stop ==
    /\ nbus > 0
    /\ stopped # "waiting"
    /\ \/ /\ task = "None"
          /\ stopped' = "returned"
          /\ UNCHANGED <<task, ppc, snap, loops>>
       \/ /\ task = "set" /\ ppc \in Running
          /\ ppc' = "cancelled"
          /\ snap' = 0
          /\ loops' = loops - 1
          /\ stopped' = "CancelledError"
          /\ UNCHANGED task
       \/ /\ task = "set" /\ CancelCanBeSwallowed
          /\ stopped' = "waiting"
          /\ UNCHANGED <<task, ppc, snap, loops>>
       \/ /\ task = "set" /\ ppc = "dead"
          /\ task' = "None"
          /\ stopped' = "returned"
          /\ UNCHANGED <<ppc, snap, loops>>
       \/ /\ task = "set" /\ ppc = "cancelled"
          /\ stopped' = "CancelledError"
          /\ UNCHANGED <<task, ppc, snap, loops>>
    /\ UNCHANGED <<regVars, poke, subs, mailbox, spc, nobs, nfull, sent,
                   track, debVars, redone, logVars>>
    /\ UNCHANGED <<authVars, sseVars>>

\* A stop() left in `await self._task` resumes when the loop ends with the
\* provider's exception.
StopResumes ==
    /\ stopped = "waiting"
    /\ ppc = "dead"
    /\ task' = "None"
    /\ stopped' = "returned"
    /\ UNCHANGED <<regVars, ppc, loops, poke, subs, mailbox, spc, nobs, snap, nfull, sent,
                   track, debVars, redone, logVars>>
    /\ UNCHANGED <<authVars, sseVars>>

\* trigger_status_refresh: _get_bus(service_dir).trigger()
Trigger ==
    /\ GetBus
    /\ poke' = TRUE
    /\ UNCHANGED <<taskVars, ppc, subs, mailbox, spc, nobs, snap, nfull, sent,
                   redone, logVars>>
    /\ UNCHANGED <<authVars, sseVars>>

\* (mutant: the clear step left out, the Event stays as the wait found it)
PokeLeftAsFound == poke
\* _run, `self._poke.clear()`: the Event after it
PokeCleared == FALSE

\* _run: wait_for(self._poke.wait(), timeout) returns or times out; the loop
\* clears the Event and calls services_snapshot.
ProducerWake ==
    /\ ppc = "wait"
    /\ ppc' = "compute"
    /\ poke' = PokeCleared
    /\ UNCHANGED <<regVars, taskVars, subs, mailbox, spc, nobs, snap, nfull, sent,
                   redone, logVars>>
    /\ UNCHANGED <<authVars, sseVars>>

\* services_snapshot, called by _run, observes the units.
ProducerObserve ==
    /\ ppc = "compute"
    /\ ppc' = "ready"
    /\ nobs' = nobs + 1
    /\ snap' = LoopStamp(nobs + 1)
    /\ UNCHANGED <<regVars, taskVars, poke, subs, mailbox, spc, nfull, sent,
                   track, debVars, redone, logVars>>
    /\ UNCHANGED <<authVars, sseVars>>

\* services_snapshot raises (a subprocess cannot be created, the directory
\* cannot be read): nothing in _run catches it and the task ends.
ProviderRaises ==
    /\ ppc \in {"compute", "ready"}
    /\ ppc' = "dead"
    /\ snap' = 0
    /\ loops' = loops - 1
    /\ UNCHANGED <<regVars, task, stopped, poke, subs, mailbox, spc, nobs, nfull, sent,
                   track, debVars, redone, logVars>>
    /\ UNCHANGED <<authVars, sseVars>>

\* services_snapshot returns to _run, which calls _broadcast: every queue of
\* list(self._subs) is served in one go, the queues that raised are dropped
\* from _subs, and the loop is back in wait_for.
ProducerBroadcast ==
    /\ ppc = "ready"
    /\ \A q \in subs : ~DepositWaits(mailbox[q])
    /\ LET d == [q \in subs |-> Deposit(mailbox[q], snap)]
           dead == {q \in subs : d[q].raised}
       IN /\ mailbox' = [q \in Streams |-> IF q \in subs THEN d[q].box ELSE mailbox[q]]
          /\ subs' = subs \ dead
    /\ nfull' = Cardinality({q \in subs : Full(mailbox[q])})
    /\ sent' = Append(sent, snap)
    /\ snap' = 0
    /\ ppc' = NextIteration
    /\ UNCHANGED <<regVars, taskVars, poke, spc, nobs, redone>>
    /\ UNCHANGED <<authVars, sseVars>>

\* status_stream starts: _get_bus, bus.subscribe() (a new Queue(maxsize=1)
\* joins _subs), and services_snapshot is called for the initial snapshot.
StreamOpen(s) ==
    /\ spc[s] = "off"
    /\ \A r \in Streams : r < s => spc[r] # "off"
    /\ GetBus
    /\ spc' = [spc EXCEPT ![s] = "init"]
    /\ subs' = subs \cup {s}
    /\ mailbox' = [mailbox EXCEPT ![s] = <<>>]
    /\ UNCHANGED <<taskVars, ppc, poke, nobs, snap, nfull, sent, track, debVars, redone>>
    /\ UNCHANGED <<authVars, sseVars>>

\* (mutant: the stream's first value is taken from its mailbox)
FirstFromMailbox(s) ==
    [ready |-> mailbox[s] # <<>>,
     snapshot |-> IF mailbox[s] # <<>> THEN Head(mailbox[s]) ELSE 0,
     box |-> IF mailbox[s] # <<>> THEN Tail(mailbox[s]) ELSE <<>>]
\* `yield await services_snapshot(service_dir)`: the first value is the
\* snapshot the stream computes itself; the mailbox is not read for it.
FirstYield(s) ==
    [ready |-> TRUE, snapshot |-> StreamStamp(nobs), box |-> mailbox[s]]

\* The initial snapshot is observed, returned and yielded.
StreamYieldFirst(s) ==
    /\ spc[s] = "init"
    /\ FirstYield(s).ready
    /\ spc' = [spc EXCEPT ![s] = "loop"]
    /\ mailbox' = [mailbox EXCEPT ![s] = FirstYield(s).box]
    /\ UNCHANGED <<regVars, taskVars, ppc, poke, subs, nobs, snap, nfull, sent,
                   track, debVars, redone>>
    /\ UNCHANGED <<authVars, sseVars>>

\* `snapshot = await q.get(); yield snapshot`
StreamRead(s) ==
    /\ spc[s] = "loop"
    /\ mailbox[s] # <<>>
    /\ mailbox' = [mailbox EXCEPT ![s] = Tail(@)]
    /\ UNCHANGED <<regVars, taskVars, ppc, poke, subs, spc, nobs, snap, nfull, sent,
                   track, debVars, redone>>
    /\ UNCHANGED <<authVars, sseVars>>

\* An exception is raised inside the generator (services_snapshot fails for
\* the initial snapshot, the request's task is cancelled in q.get()): the
\* `finally` runs at once.
StreamClose(s) ==
    /\ spc[s] \in {"init", "loop"}
    /\ spc' = [spc EXCEPT ![s] = "closed"]
    /\ subs' = SubsAfterExit(s)
    /\ UNCHANGED <<regVars, taskVars, ppc, poke, mailbox, nobs, snap, nfull, sent,
                   track, debVars, redone>>
    /\ UNCHANGED <<authVars, sseVars>>

\* The route's `async for` body fails or is cancelled in send_sse, after a
\* yield: the loop is left and the generator stays suspended at its yield,
\* its queue still in _subs.
StreamAbandon(s) ==
    /\ spc[s] = "loop"
    /\ spc' = [spc EXCEPT ![s] = "abandoned"]
    /\ UNCHANGED <<regVars, taskVars, ppc, poke, subs, mailbox, nobs, snap, nfull,
                   sent, track, debVars, redone>>
    /\ UNCHANGED <<authVars, sseVars>>

\* The abandoned generator is collected: the event loop's hook runs its
\* aclose(), GeneratorExit is raised at the yield and the `finally` runs.
StreamFinalize(s) ==
    /\ spc[s] = "abandoned"
    /\ spc' = [spc EXCEPT ![s] = "closed"]
    /\ subs' = SubsAfterExit(s)
    /\ UNCHANGED <<regVars, taskVars, ppc, poke, mailbox, nobs, snap, nfull, sent,
                   track, debVars, redone>>
    /\ UNCHANGED <<authVars, sseVars>>

\* bus.unsubscribe(q) is called once more for the queue of an ended stream.
UnsubscribeAgain(s) ==
    /\ spc[s] = "closed"
    /\ ~redone
    /\ redone' = TRUE
    /\ subs' = Discard(subs, s)
    /\ UNCHANGED <<regVars, taskVars, ppc, poke, mailbox, spc, nobs, snap, nfull,
                   sent, track, debVars>>
    /\ UNCHANGED <<authVars, sseVars>>

\* ----------------------------------------------------------- the histories
\* The trigger() call followed: the first made when none is followed; the
\* computation that starts after it takes it up, and that computation's
\* broadcast serves it.
TrackTrigger == track' = IF track = 0 THEN 2 ELSE track
TrackWake == track' = IF track = 2 THEN 1 ELSE track
TrackBroadcast == track' = IF track = 1 THEN 0 ELSE track

\* The trigger() calls counted: each call adds one, and the wake takes up
\* all those made since the wait last returned.
CountTrigger == pending' = pending + 1 /\ UNCHANGED served
CountWake == served' = pending /\ pending' = 0

\* What each step adds to the per-stream histories.
LogBroadcast ==
    /\ dropped' = [q \in Streams |->
                      IF q \in subs THEN dropped[q] + Deposit(mailbox[q], snap).evicted
                      ELSE dropped[q]]
    /\ UNCHANGED <<got, since>>
LogOpen(s) ==
    /\ since' = [since EXCEPT ![s] = Len(sent)]
    /\ UNCHANGED <<got, dropped>>
LogYield(s, snapshot) ==
    /\ got' = [got EXCEPT ![s] = Append(@, snapshot)]
    /\ UNCHANGED <<since, dropped>>

\* ========================================================== event stream
\* Texts are sequences of characters.  "a" is an ordinary character, "q" the
\* double quote, "bs" the backslash, "n" the letter n, "LF" the newline and
\* "LS" U+2028 LINE SEPARATOR (as are U+2029 and U+0085: characters above
\* 0x1F that str.splitlines takes for line boundaries).  "event: " and
\* "data: " are the field prefixes send_sse writes.
PayloadChars == {"a", "q", "LF", "LS"}
SeqsUpTo(S, n) == UNION {[1..k -> S] : k \in 0..n}
\* The payloads: the text of a log line, or of a unit's description.
Payloads == SeqsUpTo(PayloadChars, MaxLen)
\* The `event` arguments: None, "" and a name.
Events == {<<"None">>, <<>>, <<"a">>}
\* `if event:`
Truthy(e) == e # <<"None">> /\ e # <<>>

RECURSIVE Concat(_)
Concat(ss) == IF ss = <<>> THEN <<>> ELSE Head(ss) \o Concat(Tail(ss))

\* json.dumps(data, ensure_ascii=False) of a str: the quote, the backslash
\* and the characters below 0x20 are escaped, every other character is
\* written as it is.
JsonEscape(c) ==
    CASE c = "q" -> <<"bs", "q">>
      [] c = "bs" -> <<"bs", "bs">>
      [] c = "LF" -> <<"bs", "n">>
      [] OTHER -> <<c>>
JsonDumps(text) ==
    <<"q">> \o Concat([i \in 1..Len(text) |-> JsonEscape(text[i])]) \o <<"q">>

\* str.splitlines(): the text is cut at every line boundary, the boundary
\* characters are dropped, and no empty line follows a final boundary.
LineBoundaries == {"LF", "LS"}
RECURSIVE SplitLines(_)
SplitLines(text) ==
    IF text = <<>> THEN <<>>
    ELSE LET cuts == {i \in 1..Len(text) : text[i] \in LineBoundaries} IN
         IF cuts = {} THEN <<text>>
         ELSE LET i == CHOOSE x \in cuts : \A y \in cuts : x <= y IN
              <<SubSeq(text, 1, i - 1)>> \o SplitLines(SubSeq(text, i + 1, Len(text)))

\* send_sse: the body it builds for a payload and an event name.
SendSse(data, e) ==
    LET head == IF Truthy(e) THEN <<"event: ">> \o e \o <<"LF">> ELSE <<>>
        lines == SplitLines(JsonDumps(data))
        body == Concat([i \in 1..Len(lines) |-> <<"data: ">> \o lines[i] \o <<"LF">>])
    IN head \o body \o <<"LF">>

\* The messages a route hands to send.
StartMsg == "http.response.start"
CommentMsg == "comment"
DataMsg == "data"
EndMsg == "end"
\* start_sse: the response start with its headers, then the b":ok\n\n" chunk.
StartSse == <<StartMsg, CommentMsg>>
\* (mutant: end_sse after the loop, with no try/finally around the loop)
EndOnlyOnReturn(x) == x = "none"
\* `finally: await end_sse(send)`: whether the exit that carries exception x
\* (or none) reaches end_sse.
ExitSendsEnd(x) == TRUE

DataSent == Len(SelectSeq(wire, LAMBDA m : m = DataMsg))

\* No stream response is open.
SseIdle ==
    /\ route = "status"
    /\ event = <<"None">>
    /\ rpc = "call"
    /\ exc = "none"
    /\ wire = <<>>
    /\ frame = [of |-> <<>>, body |-> <<>>]

\* A stream request has passed the session gate; send_sse will be given any
\* of the event arguments.
SseInit ==
    /\ route \in {"status", "logs"}
    /\ event \in Events
    /\ rpc = "call"
    /\ exc = "none"
    /\ wire = <<>>
    /\ frame = [of |-> <<>>, body |-> <<>>]

\* `await start_sse(send)`: both sends made, the route enters its try block.
SseOpen ==
    /\ rpc = "call"
    /\ wire' = StartSse
    /\ rpc' = "loop"
    /\ UNCHANGED <<route, event, exc, frame>>
    /\ UNCHANGED <<authVars, busVars>>

\* start_sse is left by an exception of send, or the request's task is
\* cancelled in it, at its first or at its second send: the route is not yet
\* in its try block.
SseOpenFails ==
    /\ rpc = "call"
    /\ \E k \in 1..2 : wire' = SubSeq(StartSse, 1, k)
    /\ rpc' = "aborted"
    /\ \E x \in {"OSError", "CancelledError"} : exc' = x
    /\ UNCHANGED <<route, event, frame>>
    /\ UNCHANGED <<authVars, busVars>>

\* The generator yields and the loop's body runs: send_sse builds the body
\* and hands it to send, which returns.
SseData(data) ==
    /\ rpc = "loop"
    /\ DataSent < MaxFrames
    /\ wire' = Append(wire, DataMsg)
    /\ frame' = [of |-> data, body |-> SendSse(data, event)]
    /\ UNCHANGED <<route, event, rpc, exc>>
    /\ UNCHANGED <<authVars, busVars>>

\* The same, but send raises, or the task is cancelled while in send.
SseDataFails(data) ==
    /\ rpc = "loop"
    /\ DataSent < MaxFrames
    /\ wire' = Append(wire, DataMsg)
    /\ frame' = [of |-> data, body |-> SendSse(data, event)]
    /\ rpc' = "finally"
    /\ \E x \in {"OSError", "CancelledError"} : exc' = x
    /\ UNCHANGED <<route, event>>
    /\ UNCHANGED <<authVars, busVars>>

\* journal_stream ends: journalctl has closed its output.  status_stream has
\* no end of its own.
SseGeneratorEnds ==
    /\ rpc = "loop"
    /\ route = "logs"
    /\ rpc' = "finally"
    /\ exc' = "none"
    /\ UNCHANGED <<route, event, wire, frame>>
    /\ UNCHANGED <<authVars, busVars>>

\* The generator raises (services_snapshot fails in status_stream, the
\* journalctl process cannot be created), or the request's task is cancelled
\* while the loop waits for the next item.
SseGeneratorRaises ==
    /\ rpc = "loop"
    /\ rpc' = "finally"
    /\ \E x \in {"Exception", "CancelledError"} : exc' = x
    /\ UNCHANGED <<route, event, wire, frame>>
    /\ UNCHANGED <<authVars, busVars>>

\* The finally clause, then the route returns or the exception goes on.
SseEnd ==
    /\ rpc = "finally"
    /\ wire' = IF ExitSendsEnd(exc) THEN Append(wire, EndMsg) ELSE wire
    /\ rpc' = IF exc = "none" THEN "returned" ELSE "raised"
    /\ UNCHANGED <<route, event, exc, frame>>
    /\ UNCHANGED <<authVars, busVars>>

\* ------------------------------------------------------------ specification
Init == AuthInit /\ BusInit /\ SseIdle

\* The requests a client can make in the current state.
LoginRequest == \E n \in NonceValues, p \in Proofs : Login(n, p)
LogoutRequest == \E c \in CookieValues : Logout(c)
ProtectedRequest == \E t \in Targets, c \in CookieValues : Request(t[1], c, t[2])

Next ==
    \/ Challenge
    \/ LoginRequest
    \/ LogoutRequest
    \/ ProtectedRequest
    \/ Tick
    \/ ClockSetBack

vars == <<authVars, busVars, sseVars>>

\* The authentication surface.
Spec == Init /\ [][Next]_vars

\* What the streams do, for each stream.
StreamOpens == \E s \in Streams : StreamOpen(s) /\ UNCHANGED logVars
StreamYieldsFirst == \E s \in Streams : StreamYieldFirst(s) /\ UNCHANGED logVars
StreamReads == \E s \in Streams : StreamRead(s) /\ UNCHANGED logVars
StreamCloses == \E s \in Streams : StreamClose(s) /\ UNCHANGED logVars
StreamAbandons == \E s \in Streams : StreamAbandon(s) /\ UNCHANGED logVars
StreamFinalizes == \E s \in Streams : StreamFinalize(s) /\ UNCHANGED logVars
UnsubscribesAgain == \E s \in Streams : UnsubscribeAgain(s) /\ UNCHANGED logVars
Broadcasts == ProducerBroadcast /\ TrackBroadcast /\ UNCHANGED <<debVars, logVars>>
\* The producer loop goes round MaxCycles times.
Wakes == nobs < MaxCycles /\ ProducerWake /\ TrackWake /\ UNCHANGED debVars
Triggers == Trigger /\ TrackTrigger /\ UNCHANGED debVars

BusNext ==
    \/ BusStart
    \/ Start
    \/ Stop
    \/ StopResumes
    \/ Triggers
    \/ Wakes
    \/ ProducerObserve
    \/ ProviderRaises
    \/ Broadcasts
    \/ StreamOpens
    \/ StreamYieldsFirst
    \/ StreamReads
    \/ StreamCloses
    \/ StreamAbandons
    \/ StreamFinalizes
    \/ UnsubscribesAgain

\* The status bus and its streams.
BusSpec == Init /\ [][BusNext]_vars

\* The bus left running (no stop() is called) with the two subscribers of the
\* drop-oldest scenario, each step also writing the histories.
Pair == {1, 2}
LoggedOpens == \E s \in Pair : StreamOpen(s) /\ LogOpen(s)
LoggedYieldsFirst == \E s \in Pair : StreamYieldFirst(s) /\ LogYield(s, FirstYield(s).snapshot)
LoggedReads == \E s \in Pair : StreamRead(s) /\ LogYield(s, Head(mailbox[s]))
LoggedCloses == \E s \in Pair : StreamClose(s) /\ UNCHANGED logVars
LoggedBroadcasts == ProducerBroadcast /\ LogBroadcast /\ UNCHANGED <<track, debVars>>
\* The producer loop goes round LogCycles times.
LoggedWakes == nobs < LogCycles /\ ProducerWake /\ UNCHANGED <<track, debVars>>
LoggedTriggers == Trigger /\ UNCHANGED <<track, debVars>>

LogNext ==
    \/ BusStart
    \/ LoggedTriggers
    \/ LoggedWakes
    \/ ProducerObserve
    \/ ProviderRaises
    \/ LoggedBroadcasts
    \/ LoggedOpens
    \/ LoggedYieldsFirst
    \/ LoggedReads
    \/ LoggedCloses

LogSpec == Init /\ [][LogNext]_vars

\* The bus left running: no stop() is called on it.
RunNext ==
    \/ BusStart
    \/ Triggers
    \/ Wakes
    \/ ProducerObserve
    \/ ProviderRaises
    \/ Broadcasts
    \/ StreamOpens
    \/ StreamYieldsFirst
    \/ StreamReads
    \/ StreamCloses
    \/ StreamAbandons
    \/ StreamFinalizes

RunSpec == Init /\ [][RunNext]_vars

\* The running bus with the scheduling asyncio gives: the start() task that
\* _get_bus created runs, the producer loop's wait_for returns after the
\* interval at the latest, a snapshot computation
\* that does not raise returns and is broadcast, and a generator that has
\* been abandoned is collected and closed.  No stream is required ever to
\* read.
BusFairSpec ==
    /\ RunSpec
    /\ WF_vars(BusStart)
    /\ WF_vars(Wakes)
    /\ WF_vars(ProducerObserve)
    /\ WF_vars(Broadcasts)
    /\ WF_vars(StreamFinalizes)

\* The bus with its trigger() calls counted: up to MaxTriggers calls between
\* two wakes.  Streams end by themselves here, none is abandoned.
CountedTriggers == pending < MaxTriggers /\ Trigger /\ TrackTrigger /\ CountTrigger
CountedWakes == nobs < MaxCycles /\ ProducerWake /\ TrackWake /\ CountWake

DebounceNext ==
    \/ BusStart
    \/ Start
    \/ Stop
    \/ StopResumes
    \/ CountedTriggers
    \/ CountedWakes
    \/ ProducerObserve
    \/ ProviderRaises
    \/ Broadcasts
    \/ StreamOpens
    \/ StreamYieldsFirst
    \/ StreamReads
    \/ StreamCloses

DebounceSpec == Init /\ [][DebounceNext]_vars

\* A stream response, from the call of start_sse to the route's exit.
SseYields == \E data \in Payloads : SseData(data)
SseYieldsAndFails == \E data \in Payloads : SseDataFails(data)

SseNext ==
    \/ SseOpen
    \/ SseOpenFails
    \/ SseYields
    \/ SseYieldsAndFails
    \/ SseGeneratorEnds
    \/ SseGeneratorRaises
    \/ SseEnd

\* The rest of the program is idle while the response is followed.
SseBegin == AuthInit /\ BusInit /\ SseInit

SseSpec == SseBegin /\ [][SseNext]_vars

\* ================================================================== claims
Range(f) == {f[x] : x \in DOMAIN f}
\* The step just taken was a login / a protected request / a logout.
IsLogin(e) == e.op = "login"
IsRequest(e) == e.op = "request"
IsLogout(e) == e.op = "logout"

\* C1: a nonce is redeemed at most once.  A verify_login for a nonce that an
\* earlier verify_login has already turned into a session id returns None
\* (401), whatever proof it carries, and creates no session: so over any
\* sequence of calls at most one returns a session id for that nonce.
C1_RedeemedAtMostOnce ==
    [][ (IsLogin(ev') /\ ev'.nonce \in DOMAIN grant)
          => /\ ev'.out = "None"
             /\ ev'.status = 401
             /\ sessions' = sessions
             /\ nSid' = nSid ]_vars

\* C1 witness: a redeemed nonce was presented again with its correct proof
\* and was refused.
C1_Witness ==
    /\ IsLogin(ev)
    /\ ev.nonce \in DOMAIN grant
    /\ IsCorrectProof(ev.nonce, ev.proof)
    /\ ev.out = "None"

\* C2: verify_login with a stored, unexpired nonce and a wrong proof returns
\* no session id and creates no session, removes that nonce from the store,
\* leaves every other nonce and its expiry as they were, and every later
\* verify_login with a nonce that was once looked up returns None, correct
\* proof or not, unless that lookup itself granted the session.
C2_WrongProofBurnsNonce ==
    [][ /\ (/\ IsLogin(ev')
            /\ ev'.nonce \in DOMAIN nonces
            /\ ~NonceExpired(nonces[ev'.nonce], now)
            /\ ~IsCorrectProof(ev'.nonce, ev'.proof))
          => /\ ev'.out # "sid"
             /\ sessions' = sessions
             /\ ev'.nonce \notin DOMAIN nonces'
             /\ \A m \in DOMAIN nonces' : m \in DOMAIN nonces /\ nonces'[m] = nonces[m]
             /\ \A m \in (DOMAIN nonces) \ {ev'.nonce} : m \in DOMAIN nonces'
        /\ (IsLogin(ev') /\ ev'.nonce \in DOMAIN presented)
          => ev'.out = "None" /\ sessions' = sessions ]_vars

\* C2 witness: a nonce first presented, within its lifetime, with a wrong
\* proof is presented again with the correct proof, and refused.
C2_Witness ==
    /\ IsLogin(ev)
    /\ ev.nonce \in DOMAIN presented
    /\ presented[ev.nonce] = "mismatch"
    /\ IsCorrectProof(ev.nonce, ev.proof)
    /\ ev.out = "None"

\* C3: make_nonce stores, for the nonce it returns, the clock reading plus
\* 120 seconds; the stored expiry of a nonce never changes while the nonce
\* is in the store; and a verify_login that finds the nonce when the clock
\* reads more than that expiry returns None (401), even with the correct
\* proof, and creates no session.
C3_ExpiredNonceRefused ==
    [][ /\ (ev'.op = "challenge")
          => /\ ev'.nonce \notin DOMAIN nonces
             /\ DictGet(nonces', ev'.nonce) = now + NonceTtl
        /\ \A m \in DOMAIN nonces : m \in DOMAIN nonces' => nonces'[m] = nonces[m]
        /\ (/\ IsLogin(ev')
            /\ ev'.nonce \in DOMAIN nonces
            /\ now > nonces[ev'.nonce])
          => /\ ev'.out = "None"
             /\ ev'.status = 401
             /\ sessions' = sessions ]_vars

\* C3 witness: a nonce still in the store is first presented after its 120
\* seconds, with the correct proof, and is refused.
C3_Witness ==
    /\ IsLogin(ev)
    /\ ev.branch = "expired"
    /\ IsCorrectProof(ev.nonce, ev.proof)
    /\ now > ev.exp
    /\ ev.out = "None"

\* C4 as claimed: validate_sid on a stored session succeeds when the clock
\* reads less than the deadline and then stores now + ttl; it fails when the
\* clock reads the deadline or more; a session id refused for that reason
\* never validates again.
C4_Claimed ==
    (IsRequest(ev) /\ ev.called)
      => /\ (~NotNum(ev.exp) /\ now < ev.exp)
            => ev.valid /\ DictGet(sessions, ev.cookie) = now + SessionTtl
         /\ (~NotNum(ev.exp) /\ now >= ev.exp) => ~ev.valid
         /\ ev.valid => ev.cookie \notin evicted

\* C4 as amended: validate_sid on a stored session succeeds when the clock
\* reads the deadline or less, and then stores now + ttl; it fails, and
\* removes the session, only when the clock reads more than the deadline; a
\* session id refused for that reason never validates again; and a login
\* stores now + ttl for the session it creates.
C4_SlidingExpiry ==
    /\ (IsRequest(ev) /\ ev.called)
         => /\ (~NotNum(ev.exp) /\ now <= ev.exp)
               => ev.valid /\ DictGet(sessions, ev.cookie) = now + SessionTtl
            /\ (~NotNum(ev.exp) /\ now > ev.exp)
               => ~ev.valid /\ ev.cookie \notin DOMAIN sessions
            /\ ev.valid => ev.cookie \notin evicted
    /\ (IsLogin(ev) /\ ev.out = "sid")
         => DictGet(sessions, ev.sid) = now + SessionTtl

\* C4 witness: validate_sid is called exactly at the deadline, succeeds and
\* slides the deadline.
C4_Witness ==
    /\ IsRequest(ev)
    /\ ev.called
    /\ ev.exp = now
    /\ ev.valid
    /\ sessions[ev.cookie] = now + SessionTtl

\* C5: once revoke_sid(id) has returned, every validate_sid(id) returns
\* False and the request is answered 401, whatever the clock reads; and a
\* logout whose cookie names no stored session (never issued, expired, or
\* already revoked) changes neither store and still answers 200.
C5_RevokedNeverValidates ==
    [][ /\ (IsRequest(ev') /\ ev'.called /\ ev'.cookie \in revoked)
          => ~ev'.valid /\ ev'.status = 401 /\ sessions' = sessions
        /\ (IsLogout(ev') /\ ev'.cookie \notin DOMAIN sessions)
          => sessions' = sessions /\ nonces' = nonces /\ ev'.status = 200
        /\ (IsLogout(ev') /\ ev'.cookie \in DOMAIN sessions)
          => /\ ev'.cookie \notin DOMAIN sessions'
             /\ \A x \in (DOMAIN sessions) \ {ev'.cookie} :
                    x \in DOMAIN sessions' /\ sessions'[x] = sessions[x] ]_vars

\* C5 witness: a session obtained by login is revoked and then presented
\* while the clock still reads less than any deadline it can have had.
C5_Witness ==
    /\ IsRequest(ev)
    /\ ev.cookie \in Range(grant)
    /\ ev.cookie \in revoked
    /\ ev.cookie \notin evicted
    /\ now < SessionTtl
    /\ ~ev.valid
    /\ ev.status = 401

\* C6: a protected request is served exactly when validate_sid is called
\* for its cookie and returns True.  A cookie naming a stored session whose
\* deadline the clock has not passed is served (the endpoint is reached and
\* starts its work); a request with no cookie, an empty one, or an id that
\* was never issued, was revoked or has expired gets 401 and starts nothing.
\* Every served request carries an id that a login returned.
C6_GateGuardsEndpoints ==
    [][ IsRequest(ev') =>
          LET c == ev'.cookie
              live == c \in DOMAIN sessions /\ now <= sessions[c]
              r == EndpointResult(ev'.endpoint, "ok")
          IN
          /\ live => /\ ev'.valid
                     /\ ev'.status # 401
                     /\ ev'.effect \in {"none", r.effect}
                     /\ ev'.status = 200 => ev'.effect = r.effect
          /\ ~live => ev'.status = 401 /\ ev'.effect = "none"
          /\ (ev'.status # 401) = ev'.valid
          /\ ev'.valid => /\ c \in Range(grant)
                          /\ c \notin revoked
                          /\ c \notin evicted ]_vars

\* C6 witness: the cookie set by a successful login opens the status stream.
C6_Witness ==
    /\ IsRequest(ev)
    /\ ev.cookie \in Range(grant)
    /\ ev.endpoint = "status_stream"
    /\ ev.status = 200
    /\ ev.effect = "subscribe"

\* C7: every failed redemption looks the same to the caller: whenever
\* verify_login returns no session id it returns None, and the login route
\* answers 401, whether the nonce was unknown, expired, used, or the proof
\* did not match.
C7_FailuresIndistinguishable ==
    (IsLogin(ev) /\ ev.out # "sid") => (ev.out = "None" /\ ev.status = 401)

\* A stream that is subscribed and has taken nothing out of its mailbox.
NeverRead(s) ==
    /\ s \in subs
    /\ Len(got[s]) = (IF spc[s] = "loop" THEN 1 ELSE 0)
\* What a subscribed stream has taken out of its mailbox, in order.
Reads(s) == IF spc[s] = "loop" THEN Tail(got[s]) ELSE <<>>
\* The snapshots broadcast since stream s subscribed, in order.
SentSince(s) == SubSeq(sent, since[s] + 1, Len(sent))

\* C8: in every reachable state, whatever the interleaving of broadcasts,
\* subscribes, unsubscribes and reads, each subscriber mailbox holds at most
\* one pending snapshot.
C8_AtMostOnePending ==
    \A s \in Streams : Len(mailbox[s]) <= 1

\* C8 witness: after a stream has unsubscribed, a broadcast found the
\* mailbox of a subscribed stream full, and that mailbox holds the one
\* snapshot just broadcast.
C8_Witness ==
    \E s, r \in Streams :
        /\ spc[r] = "closed"
        /\ s \in subs
        /\ nfull >= 1
        /\ Len(sent) >= 2
        /\ mailbox[s] = <<sent[Len(sent)]>>

\* C9: drop-oldest delivery.  A subscriber that never reads holds, once a
\* broadcast has been made since it subscribed, exactly the most recent
\* snapshot and nothing else; a subscriber that read every snapshot before
\* the next broadcast (none of its snapshots was evicted) has received, with
\* the one still pending, all the snapshots broadcast since it subscribed, in
\* generation order.
C9_DropOldest ==
    \A s \in Pair :
        /\ (NeverRead(s) /\ Len(sent) > since[s])
               => mailbox[s] = <<sent[Len(sent)]>>
        /\ (s \in subs /\ dropped[s] = 0)
               => Reads(s) \o mailbox[s] = SentSince(s)
        /\ \A i, j \in 1..Len(sent) : i < j => sent[i] < sent[j]

\* C9 witness: two subscribers from the start, 5 broadcast cycles; stream 1
\* read after every broadcast and has received all 5 in order, stream 2 never
\* read and holds the 5th only, the 4 before it having been evicted.
C9_Witness ==
    /\ Len(sent) = 5
    /\ sent = [k \in 1..5 |-> LoopStamp(k)]
    /\ subs = Pair
    /\ since[1] = 0 /\ since[2] = 0
    /\ dropped[1] = 0
    /\ Reads(1) = sent
    /\ mailbox[1] = <<>>
    /\ NeverRead(2)
    /\ mailbox[2] = <<LoopStamp(5)>>
    /\ dropped[2] = 4

\* The run's budget of cycles lets the loop leave wait_for.
CanGoRound == ppc = "wait" => nobs < MaxCycles

\* C10: the producer is never blocked by subscribers.  While the loop is
\* running, from every state where k broadcasts have been made a further
\* broadcast follows, unless the loop ends (the snapshot provider raises, or
\* stop() cancels it): no read by any stream is needed, full mailboxes or not.
C10_ProducerNeverBlocked ==
    \A k \in 0..(MaxCycles - 1) :
        (ppc \in Running /\ Len(sent) = k /\ CanGoRound)
            ~> (Len(sent) > k \/ ppc \notin Running)

\* C10 witness: every stream is subscribed, the last broadcast found every
\* mailbox full, and the loop has gone on to make all its broadcasts.
C10_Witness ==
    /\ subs = Streams
    /\ nfull = MaxSubs
    /\ \A s \in Streams : mailbox[s] = <<LoopStamp(MaxCycles)>>
    /\ Len(sent) = MaxCycles
    /\ ppc = "wait"

\* C11: no stream receives snapshots out of order: the values a stream has
\* yielded, its own initial snapshot first and then those taken from its
\* mailbox, are in non-decreasing generation order.
C11_NeverOutOfOrder ==
    \A s \in Pair :
        \A i, j \in 1..Len(got[s]) : i < j => got[s][i] <= got[s][j]

\* C12: the first value a stream yields is the snapshot its own call to
\* services_snapshot computed, one value and no more, with nothing taken from
\* the mailbox; and a stream that has subscribed can yield it in every state,
\* whatever the producer loop is doing and whether or not a trigger is
\* pending.
C12_ImmediateSnapshot ==
    [][\A s \in Pair :
          /\ spc[s] = "init" =>
                 ENABLED (StreamYieldFirst(s) /\ LogYield(s, FirstYield(s).snapshot))
          /\ (spc[s] = "init" /\ spc'[s] = "loop") =>
                 /\ got'[s] = <<StreamStamp(nobs)>>
                 /\ mailbox'[s] = mailbox[s]
                 /\ sent' = sent]_vars

\* C12 witness: trigger() has been called and the loop has not woken; the
\* only stream, opened on a bus with no subscriber, has yielded its own
\* snapshot and holds nothing.
C12_Witness ==
    /\ poke
    /\ ppc = "wait"
    /\ nobs = 0
    /\ subs = {1}
    /\ spc[1] = "loop" /\ spc[2] = "off"
    /\ got[1] = <<StreamStamp(0)>>
    /\ mailbox[1] = <<>>

\* The streams whose generator is live and being iterated.
Open == {s \in Streams : spc[s] \in {"init", "loop"}}

\* C13: once unsubscribe has returned for a stream's queue, no broadcast
\* deposits into that queue; no deposit of a broadcast raises and the
\* broadcast drops no subscriber; and a further unsubscribe for the same
\* queue, the loop running or ended, changes neither the subscriber set nor
\* any mailbox.
C13_UnsubscribedGetsNothing ==
    [][/\ \A s \in Streams :
              spc[s] = "closed" => (s \notin subs /\ mailbox'[s] = mailbox[s])
       /\ Len(sent') > Len(sent) =>
              /\ \A q \in subs : ~Deposit(mailbox[q], snap).raised
              /\ subs' = subs
       /\ redone' # redone => (subs' = subs /\ mailbox' = mailbox)]_vars

\* C13 witness: stream s unsubscribed holding the first snapshot and the
\* second broadcast went to stream r only; the loop was then stopped and
\* unsubscribe was called again, r still being subscribed.
C13_Witness ==
    \E s, r \in Streams :
        /\ spc[s] = "closed"
        /\ r \in subs
        /\ Len(sent) = 2
        /\ mailbox[s] = <<sent[1]>>
        /\ mailbox[r] = <<sent[2]>>
        /\ ppc = "cancelled"
        /\ redone

\* C14: at most one StatusBus is ever made for the service_dir and at most
\* one start() is scheduled for it, whatever the order of status_stream and
\* trigger_status_refresh calls; nothing is subscribed, triggered or started
\* without that bus.
C14_OneBusPerScope ==
    /\ nbus <= 1
    /\ startq <= nbus
    /\ nbus = 0 => (subs = {} /\ ~poke /\ task = "None" /\ ppc = "none")
    /\ (task = "None" /\ stopped = "none" /\ nbus = 1) => startq = 1

\* C14 witness: every stream has been opened and a trigger made on the one
\* bus, whose scheduled start() has run and whose loop is going.
C14_Witness ==
    /\ nbus = 1
    /\ startq = 0
    /\ subs = Streams
    /\ poke
    /\ ppc \in Running

\* C15: stop() called while the loop runs returns normally, the loop ended
\* and no task recorded (so that a following start() makes a new loop).
C15_StopReturnsStopped ==
    [][(ppc \in Running /\ stopped' # stopped) =>
           (stopped' = "returned" /\ task' = "None" /\ ppc' \notin Running)]_vars

\* C16: once stop() has been called on a bus whose task exists, and until it
\* has returned, the loop makes no further broadcast and no mailbox receives
\* a deposit.
C16_NoBroadcastAfterStop ==
    [][(stopped \in {"CancelledError", "waiting"}) =>
           (/\ sent' = sent
            /\ \A s \in Streams : Len(mailbox'[s]) <= Len(mailbox[s]))]_vars

\* C17: no trigger is lost while the bus has not been stopped: whenever a
\* trigger() call awaits the computation that starts after it, or that
\* computation's broadcast, the producer loop is there to make it.
C17_NoTriggerLost ==
    track # 0 => ppc # "dead"

\* The re-arming itself: as long as the loop is alive, the trigger followed is
\* taken up by a computation that starts after it and served by that
\* computation's broadcast, with no further trigger (the interval's timeout,
\* or the Event still set, wakes the loop).
TriggerServedWhileLoopAlive ==
    (track # 0 /\ ppc # "dead")
        ~> (track = 0 \/ ppc = "dead" \/ ~CanGoRound)

\* C18: the producer loop survives an error of the snapshot provider: it
\* never ends with the provider's exception.
C18_LoopSurvivesProviderError ==
    [][(ppc \in {"compute", "ready"}) => (ppc' # "dead")]_vars

\* C19: a stream that ends is deregistered.  A stream whose generator was
\* left suspended is in the end removed from the subscriber set; while it
\* waits for that, the broadcast neither waits nor raises on its mailbox;
\* and when no generator is left suspended the subscriber set is exactly the
\* set of the streams still open.
C19_EndedStreamDeregistered ==
    /\ \A s \in Streams : (spc[s] = "abandoned") ~> (s \notin subs)
    /\ [](\A q \in subs : ~DepositWaits(mailbox[q]) /\ ~Deposit(mailbox[q], snap).raised)
    /\ []((\A s \in Streams : spc[s] # "abandoned") => subs = Open)

\* C19 witness: the generator of a stream is suspended with nobody iterating;
\* the loop has broadcast into its full mailbox and runs on.
C19_Witness ==
    \E s \in Streams :
        /\ spc[s] = "abandoned"
        /\ s \in subs
        /\ nfull >= 1
        /\ Len(sent) >= 2
        /\ mailbox[s] = <<sent[Len(sent)]>>
        /\ ppc = "wait"

\* C20: a login attempt never throws across the session boundary: whatever
\* nonce and proof are submitted, verify_login returns a session id or None
\* and the route answers 200 or 401.
C20_LoginNeverThrows ==
    IsLogin(ev) => (ev.out \in {"sid", "None"} /\ ev.status \in {200, 401})

\* C21: logout always answers 200 {"ok": true}: without a cookie, with an
\* empty one, with an id that names no stored session and with a live one;
\* a logout whose cookie is non-empty leaves no session under that id; and
\* every later protected request carrying a cookie value that a logout has
\* revoked is answered 401 and reaches no endpoint.
C21_LogoutAlwaysOk ==
    [][ /\ (IsLogout(ev'))
          => /\ ev'.status = 200
             /\ ev'.ok
             /\ (~NotStr(ev'.cookie)) => (ev'.cookie \notin DOMAIN sessions')
             /\ (NotStr(ev'.cookie)) => (sessions' = sessions)
        /\ (IsRequest(ev') /\ ev'.cookie \in revoked)
          => /\ ev'.status = 401
             /\ ev'.effect = "none" ]_vars

\* C21 witness: a logout whose cookie names a live session (stored, the
\* clock not past its deadline) has answered 200 and the session is gone.
C21_Witness ==
    /\ IsLogout(ev)
    /\ ev.cookie \in Range(grant)
    /\ ev.exp # None
    /\ now <= ev.exp
    /\ ev.cookie \notin DOMAIN sessions
    /\ ev.status = 200
    /\ ev.ok

\* C26: no session exists without a successful login.  An id enters the
\* session store only in a verify_login step that returns it, for a nonce
\* that make_nonce issued, that no verify_login had looked up before (it is
\* still in the store), whose expiry the clock has not passed, and with a
\* proof that is the hex digest of HMAC-SHA256(key, nonce); the id is a new
\* one.  No other step (make_nonce, a verify_login that returns no id,
\* validate_sid, revoke_sid, the clock) adds an id, and every id in the
\* store is the one returned for a nonce whose lookup ended in a match.
C26_NoSessionWithoutLogin ==
    [][ /\ \A sid \in (DOMAIN sessions') \ (DOMAIN sessions) :
              /\ IsLogin(ev')
              /\ ev'.out = "sid"
              /\ ev'.sid = sid
              /\ sid \notin 1..nSid
              /\ ev'.nonce \in 1..nNonce
              /\ ev'.nonce \in DOMAIN nonces
              /\ ev'.nonce \notin DOMAIN presented
              /\ now <= nonces[ev'.nonce]
              /\ IsCorrectProof(ev'.nonce, ev'.proof)
        /\ (~(IsLogin(ev') /\ ev'.out = "sid"))
              => (DOMAIN sessions' \subseteq DOMAIN sessions)
        /\ \A sid \in DOMAIN sessions' :
              \E n \in DOMAIN grant' :
                  grant'[n] = sid /\ n \in DOMAIN presented' /\ presented'[n] = "match"
      ]_vars

\* C26 witness: the store holds exactly the id a login returned; that id has
\* since been validated by a protected request, and the nonce it was
\* granted for has left the challenge store.
C26_Witness ==
    /\ IsRequest(ev)
    /\ ev.valid
    /\ DOMAIN sessions = {ev.cookie}
    /\ \E n \in DOMAIN grant :
          /\ grant[n] = ev.cookie
          /\ presented[n] = "match"
          /\ n \notin DOMAIN nonces
    /\ nSid = 1

\* C22: start() is idempotent.  In every state at most one _run task is
\* alive, whatever start() calls were made and in whatever order with
\* stop(), the loop's own steps and the start that _get_bus scheduled; and a
\* start() on a bus that has a task recorded creates no task and changes
\* neither the recorded task nor where the loop stands.
C22_StartIdempotent ==
    /\ [](loops <= 1)
    /\ []((loops = 1) <=> (ppc \in Running))
    /\ [][((Start \/ BusStart) /\ ~TaskIsNone) => (UNCHANGED <<task, ppc, loops>>)]_vars

\* C22 witness: a loop ended with the provider's exception, stop() returned
\* and cleared the task, and start() has been called since: the bus has a
\* running loop again, and only that one.
C22_Witness ==
    /\ stopped = "returned"
    /\ task = "set"
    /\ ppc \in Running
    /\ loops = 1
    /\ startq = 0
    /\ nobs >= 1

\* C23: triggers are debounced.  The Event is set exactly when a trigger()
\* call has been made since the loop's wait last returned, so a wait that
\* returns because of the Event takes up at least one new call and a call is
\* taken up by one wake only.  The wake clears the Event, whatever the
\* number of calls it takes up, and computes and broadcasts nothing itself;
\* a computation is made only for a wake and a broadcast only for a
\* computation, one each, the broadcast carrying that computation's
\* snapshot and bringing the loop back to its wait; no snapshot is broadcast
\* twice.
C23_TriggersDebounced ==
    /\ [](poke <=> (pending > 0))
    /\ [](/\ Len(sent) <= nobs
          /\ \A i, j \in 1..Len(sent) : i < j => sent[i] < sent[j])
    /\ [][ /\ (ppc = "wait" /\ ppc' = "compute")
              => /\ ~poke'
                 /\ pending' = 0
                 /\ (served' > 0) <=> poke
                 /\ nobs' = nobs
                 /\ sent' = sent
           /\ (ppc' = "compute") => (ppc \in {"wait", "compute"})
           /\ (nobs' # nobs)
              => /\ ppc = "compute"
                 /\ ppc' = "ready"
                 /\ nobs' = nobs + 1
                 /\ sent' = sent
           /\ (ppc' = "ready") => (ppc \in {"compute", "ready"})
           /\ (sent' # sent)
              => /\ ppc = "ready"
                 /\ ppc' = "wait"
                 /\ sent' = Append(sent, LoopStamp(nobs))
           /\ (poke' /\ ~poke) => (pending' = 1)
         ]_vars

\* C23 witness: two trigger() calls were made before one wake; that wake
\* took up both, one snapshot was computed and broadcast, and the loop is
\* back in its wait with the Event clear and no call pending.
C23_Witness ==
    /\ served = 2
    /\ pending = 0
    /\ ~poke
    /\ ppc = "wait"
    /\ loops = 1
    /\ nobs = 1
    /\ sent = <<LoopStamp(1)>>

\* The messages of a response in their order: the start first and only
\* first, the comment frame second and only second, the end message last,
\* data frames in between.
WireOrdered ==
    \A i \in 1..Len(wire) :
        /\ (wire[i] = StartMsg) <=> (i = 1)
        /\ (wire[i] = CommentMsg) <=> (i = 2)
        /\ (wire[i] = EndMsg) => (i = Len(wire))

\* C24: a stream response is the response start, one comment frame, zero or
\* more data frames, then one end-of-body message.  At every moment the
\* messages sent are a beginning of that order; once the route has left its
\* loop and run its finally clause (by the generator's end, by an exception
\* of the generator or of send, or by cancellation) the end message has been
\* sent, once; and nothing is sent after the end message.
C24_StreamResponseOrder ==
    /\ [](WireOrdered)
    /\ []((rpc \in {"returned", "raised"})
            => (Len(wire) >= 3 /\ wire[Len(wire)] = EndMsg))
    /\ [][(wire # <<>> /\ wire[Len(wire)] = EndMsg) => (wire' = wire)]_vars

\* C24 witness: the request's task was cancelled after two data frames; the
\* response is start, comment, two data frames and the end message.
C24_Witness ==
    /\ rpc = "raised"
    /\ exc = "CancelledError"
    /\ wire = <<StartMsg, CommentMsg, DataMsg, DataMsg, EndMsg>>

\* What the receiver of a frame does: the lines of the frame (each ended by
\* a newline), the contents of its data lines joined by a newline, and the
\* JSON text decoded.
RECURSIVE WireLines(_)
WireLines(body) ==
    IF body = <<>> THEN <<>>
    ELSE LET ends == {i \in 1..Len(body) : body[i] = "LF"} IN
         IF ends = {} THEN <<body>>
         ELSE LET i == CHOOSE x \in ends : \A y \in ends : x <= y IN
              <<SubSeq(body, 1, i - 1)>> \o WireLines(SubSeq(body, i + 1, Len(body)))
IsField(line, name) == line # <<>> /\ Head(line) = name
RECURSIVE JoinLines(_)
JoinLines(ls) ==
    IF ls = <<>> THEN <<>>
    ELSE IF Len(ls) = 1 THEN Head(ls)
    ELSE Head(ls) \o <<"LF">> \o JoinLines(Tail(ls))
DataText(body) ==
    LET ls == WireLines(body)
        data == SelectSeq(ls, LAMBDA l : IsField(l, "data: "))
    IN JoinLines([i \in 1..Len(data) |-> Tail(data[i])])
\* json.loads of a JSON string: a character below 0x20 or a bare quote
\* inside the string is an error, an escape gives its character.
RECURSIVE JsonUnescape(_)
JsonUnescape(t) ==
    IF t = <<>> THEN [ok |-> TRUE, value |-> <<>>]
    ELSE IF t[1] = "bs"
    THEN IF Len(t) < 2 \/ t[2] \notin {"q", "bs", "n"}
         THEN [ok |-> FALSE, value |-> <<>>]
         ELSE LET r == JsonUnescape(SubSeq(t, 3, Len(t)))
                  c == IF t[2] = "n" THEN "LF" ELSE t[2]
              IN [ok |-> r.ok, value |-> IF r.ok THEN <<c>> \o r.value ELSE <<>>]
    ELSE IF t[1] \in {"LF", "q"}
    THEN [ok |-> FALSE, value |-> <<>>]
    ELSE LET r == JsonUnescape(Tail(t))
         IN [ok |-> r.ok, value |-> IF r.ok THEN <<t[1]>> \o r.value ELSE <<>>]
JsonLoads(t) ==
    IF Len(t) < 2 \/ t[1] # "q" \/ t[Len(t)] # "q"
    THEN [ok |-> FALSE, value |-> <<>>]
    ELSE JsonUnescape(SubSeq(t, 2, Len(t) - 1))

\* The frame of the last send_sse call is an optional event line, one or
\* more data lines and a blank line, with no blank line before.
FrameWellFormed ==
    LET ls == WireLines(frame.body)
        n == Len(ls)
        k == IF Truthy(event) THEN 1 ELSE 0
    IN /\ n >= k + 2
       /\ ls[n] = <<>>
       /\ \A i \in 1..(n - 1) : ls[i] # <<>>
       /\ (k = 1) => (ls[1] = <<"event: ">> \o event)
       /\ \A i \in (k + 1)..(n - 1) : IsField(ls[i], "data: ")

\* C25: send_sse frames are self-delimiting and lossless: the frame built
\* for any payload and event argument is well formed, and the contents of
\* its data lines joined by a newline decode to the payload.
C25_FramesLossless ==
    (DataSent > 0) =>
        /\ FrameWellFormed
        /\ JsonLoads(DataText(frame.body)) = [ok |-> TRUE, value |-> frame.of]

====
